---- MODULE Spec2Model ----
(***************************************************************************)
(* Model of the audio -> subtitle pipeline of whisper-translator.          *)
(*                                                                         *)
(* The repository ships the same pipeline in three front-ends:             *)
(*   "app"       src/app.py            (Gradio, handler threads)           *)
(*   "main"      src/main.py           (FastAPI, one asyncio event loop)   *)
(*   "streamlit" src/streamlit_app.py  (Streamlit, one script thread per   *)
(*                                      session)                           *)
(* The variable frontend selects which program a behaviour is a run of.    *)
(*                                                                         *)
(* Conventions.                                                            *)
(*  - A Python str is a sequence of one-character strings.                 *)
(*  - A message (error text built with f-strings) is a sequence of chunks; *)
(*    the empty message "" is the empty sequence, so Python truthiness of  *)
(*    a message is "is not the empty sequence".                            *)
(*  - The Chinese literals of the source are written as ASCII stand-ins;   *)
(*    each stand-in names the literal's source line in its comment.        *)
(*  - Times are integer milliseconds (and microseconds where a helper is   *)
(*    called on its own); format_timestamp computes on the double nearest  *)
(*    to the offset, as the source does.                                   *)
(***************************************************************************)
EXTENDS Integers, Sequences, FiniteSets, TLC

(***************************************************************************)
(* Bounds of the model.                                                    *)
(***************************************************************************)
MaxSegments == 2       \* longest result["segments"] the recognizer returns
MaxRequests == 2       \* requests served in one behaviour
MaxWorkers  == 2       \* concurrent handler threads of SpecConcurrent
MaxOffsetMs == 1100    \* format_timestamp is called on every 0..MaxOffsetMs ms
MaxWords    == 3       \* most words of a text clean_text_for_subtitle is called on

(***************************************************************************)
(* Program constants.                                                      *)
(***************************************************************************)
MaxLineLen     == 40    \* clean_text_for_subtitle: len(text) > 40
MinDurationMs  == 100   \* streamlit_app.py: (end - start) > 0.1
PreviewMain    == 5     \* main.py: result['original_texts'][:5]
PreviewStreamlit == 10  \* streamlit_app.py: result['original_texts'][:10]

Frontends == {"app", "main", "streamlit"}
Tiers     == {"tiny", "base", "small", "medium"}
FastestTier == "tiny"

(***************************************************************************)
(* Python str helpers (str.strip, re.sub(r'\s+', ' ', .), str.split(' '),   *)
(* "sep".join).                                                            *)
(***************************************************************************)
IsSpace(c) == c \in {" ", "\n", "\t"}

RECURSIVE lstrip(_)
lstrip(s) == IF s = <<>> THEN <<>>
             ELSE IF IsSpace(Head(s)) THEN lstrip(Tail(s)) ELSE s

RECURSIVE rstrip(_)
rstrip(s) == IF s = <<>> THEN <<>>
             ELSE IF IsSpace(s[Len(s)]) THEN rstrip(SubSeq(s, 1, Len(s) - 1))
             ELSE s

strip(s) == rstrip(lstrip(s))

\* re.sub(r'\s+', ' ', s): every maximal whitespace run becomes one space:
\* a character stays unless it is whitespace that follows whitespace, and
\* the whitespace that stays is written as a space
collapse_ws(s) ==
    LET kept == SelectSeq([i \in 1..Len(s) |-> i],
                          LAMBDA i : \/ ~IsSpace(s[i])
                                     \/ i = 1
                                     \/ ~IsSpace(s[i - 1]))
    IN  [k \in 1..Len(kept) |->
            IF IsSpace(s[kept[k]]) THEN " " ELSE s[kept[k]]]

\* the pieces of s between the occurrences of the character sep, the first
\* piece after what cur already holds
split_at(s, sep, cur) ==
    LET cuts == SelectSeq([i \in 1..Len(s) |-> i], LAMBDA i : s[i] = sep)
        from(k) == IF k = 1 THEN 1 ELSE cuts[k - 1] + 1
        upto(k) == IF k <= Len(cuts) THEN cuts[k] - 1 ELSE Len(s)
    IN  [k \in 1..(Len(cuts) + 1) |->
            IF k = 1 THEN cur \o SubSeq(s, from(k), upto(k))
            ELSE SubSeq(s, from(k), upto(k))]

\* s.split(' '): a sequence of words, cut at every single space
split_space(s, cur) == split_at(s, " ", cur)

\* sep.join(parts)
RECURSIVE join(_, _)
join(sep, parts) ==
    IF parts = <<>> THEN <<>>
    ELSE IF Len(parts) = 1 THEN parts[1]
         ELSE parts[1] \o sep \o join(sep, Tail(parts))

(***************************************************************************)
(* clean_text_for_subtitle: the subtitle line wrapper.                     *)
(***************************************************************************)
\* variant: the test leaves out the space that joins the word to the line
RECURSIVE wrap_words_space_not_counted(_, _, _)
wrap_words_space_not_counted(words, lines, current_line) ==
    IF words = <<>>
    THEN IF current_line # <<>> THEN Append(lines, current_line) ELSE lines
    ELSE LET word == Head(words) IN
         IF Len(current_line) + Len(word) <= MaxLineLen
         THEN wrap_words_space_not_counted(Tail(words), lines,
                         IF current_line # <<>>
                         THEN current_line \o <<" ">> \o word ELSE word)
         ELSE wrap_words_space_not_counted(Tail(words),
                         IF current_line # <<>>
                         THEN Append(lines, current_line) ELSE lines,
                         word)

\* variant: the test is < instead of <=, a line that would be filled to the
\* limit is broken
RECURSIVE wrap_words_strict(_, _, _)
wrap_words_strict(words, lines, current_line) ==
    IF words = <<>>
    THEN IF current_line # <<>> THEN Append(lines, current_line) ELSE lines
    ELSE LET word == Head(words) IN
         IF Len(current_line) + 1 + Len(word) < MaxLineLen
         THEN wrap_words_strict(Tail(words), lines,
                         IF current_line # <<>>
                         THEN current_line \o <<" ">> \o word ELSE word)
         ELSE wrap_words_strict(Tail(words),
                         IF current_line # <<>>
                         THEN Append(lines, current_line) ELSE lines,
                         word)

\* variant: the line in progress is not appended after the loop
RECURSIVE wrap_words_last_line_lost(_, _, _)
wrap_words_last_line_lost(words, lines, current_line) ==
    IF words = <<>>
    THEN lines
    ELSE LET word == Head(words) IN
         IF Len(current_line) + 1 + Len(word) <= MaxLineLen
         THEN wrap_words_last_line_lost(Tail(words), lines,
                         IF current_line # <<>>
                         THEN current_line \o <<" ">> \o word ELSE word)
         ELSE wrap_words_last_line_lost(Tail(words),
                         IF current_line # <<>>
                         THEN Append(lines, current_line) ELSE lines,
                         word)

\* the for-loop over words, carrying lines and current_line
RECURSIVE wrap_words(_, _, _)
wrap_words(words, lines, current_line) ==
    IF words = <<>>
    THEN IF current_line # <<>> THEN Append(lines, current_line) ELSE lines
    ELSE LET word == Head(words) IN
         IF Len(current_line) + 1 + Len(word) <= MaxLineLen
         THEN wrap_words(Tail(words), lines,
                         IF current_line # <<>>
                         THEN current_line \o <<" ">> \o word ELSE word)
         ELSE wrap_words(Tail(words),
                         IF current_line # <<>>
                         THEN Append(lines, current_line) ELSE lines,
                         word)

clean_text_for_subtitle(text) ==
    LET t == collapse_ws(strip(text)) IN
    IF Len(t) > MaxLineLen
    THEN join(<<"\n">>, wrap_words(split_space(t, <<>>), <<>>, <<>>))
    ELSE t

(***************************************************************************)
(* format_timestamp: milliseconds -> "HH:MM:SS,mmm".                       *)
(***************************************************************************)
Digit(d) == <<"0", "1", "2", "3", "4", "5", "6", "7", "8", "9">>[d + 1]

RECURSIVE Decimal(_)
Decimal(n) == IF n < 10 THEN <<Digit(n)>>
              ELSE Append(Decimal(n \div 10), Digit(n % 10))

\* the format specs :02d and :03d pad to a minimum width, never truncate
RECURSIVE ZeroPad(_, _)
ZeroPad(s, width) == IF Len(s) >= width THEN s
                     ELSE ZeroPad(<<"0">> \o s, width)

\* f"{n:02d}", f"{n:03d}": the sign comes first and counts in the width
format_d(n, width) ==
    IF n < 0 THEN <<"-">> \o ZeroPad(Decimal(-n), width - 1)
    ELSE ZeroPad(Decimal(n), width)

\* floor(log2(v)) for v >= 1: the exponent of the double v
RECURSIVE ilog2(_)
ilog2(v) == IF v < 2 THEN 0 ELSE 1 + ilog2(v \div 2)

RECURSIVE pow2(_)
pow2(k) == IF k = 0 THEN 1 ELSE 2 * pow2(k - 1)

\* 2^k mod m, by squaring
RECURSIVE pow2mod(_, _)
pow2mod(k, m) ==
    IF k = 0 THEN 1 % m
    ELSE IF k % 2 = 0
         THEN LET h == pow2mod(k \div 2, m) IN (h * h) % m
         ELSE (2 * pow2mod(k - 1, m)) % m

\* td.total_seconds() of an offset of n ms (n >= 1000) is the double x
\* nearest to n/1000: x = M / 2^k with k = 52 - ilog2(n \div 1000) and
\* M = round(n * 2^k / 1000).  With r = (n * 2^k) mod 1000, x lies below
\* n/1000 by r / (1000 * 2^k) when r < 500 and above it when r > 500 (r = 500
\* cannot happen: n * 2^k is a multiple of 8).  The result is r when x lies
\* below n/1000, else 0.
float_shortfall(n) ==
    LET k == 52 - ilog2(n \div 1000)
        r == ((n % 1000) * pow2mod(k, 1000)) % 1000
    IN  IF r < 500 THEN r ELSE 0

\* int((seconds % 1) * 1000) for an offset of n ms, n >= 0.  divmod and % 1
\* are exact on doubles, so seconds % 1 is the fraction of x, m/1000 minus
\* the shortfall; its product by 1000 is m - r / 2^k, rounded once to a
\* double.  The doubles just below m are 2^(ilog2(m - 1) - 52) apart (2^-53
\* below 1), so the product stays below m, and int() gives m - 1, when
\* r / 2^k is more than half of that gap.  Below one second the product
\* rounds to m for every m in 0..999.
float_milliseconds(n) ==
    LET m   == n % 1000
        r   == float_shortfall(n)
        gap == IF m = 1 THEN -1 ELSE ilog2(m - 1)
        sh  == ilog2(n \div 1000) + 1 - gap
    IN  IF n < 1000 \/ m = 0 \/ r = 0 THEN m
        ELSE IF \/ sh >= 1
                \/ sh = 0 /\ r > 1
                \/ sh < 0 /\ r > pow2(-sh)
             THEN m - 1
             ELSE m

\* format_timestamp(seconds) for seconds = ms/1000 + us/1000000, 0 <= us < 1000.
\* timedelta keeps microseconds and accepts negative values; divmod floors.
\* An offset between two milliseconds is further from both than the error
\* of the double, so its fraction is truncated to the millisecond below; a
\* negative offset is taken on the half-second grid, where every operation
\* is exact.
format_timestamp_at(ms, us) ==
    LET hours        == ms \div 3600000
        remainder    == ms % 3600000
        minutes      == remainder \div 60000
        seconds      == (remainder % 60000) \div 1000
        milliseconds == IF ms >= 0 /\ us = 0 THEN float_milliseconds(ms)
                        ELSE remainder % 1000
    IN  format_d(hours, 2) \o <<":">> \o
        format_d(minutes, 2) \o <<":">> \o
        format_d(seconds, 2) \o <<",">> \o
        format_d(milliseconds, 3)

\* format_timestamp of a segment's start or end, a whole number of ms
format_timestamp(ms) == format_timestamp_at(ms, 0)

(***************************************************************************)
(* Messages.  ASCII stand-ins of the literals of the source.               *)
(***************************************************************************)
MSG_TRANSCRIBE  == "transcribe error: "              \* main.py:97, :142
MSG_TRANSLATE   == "translate error: "               \* main.py:158, app.py:107
MSG_NO_TEXT     == "cannot extract text from audio"  \* main.py:145, app.py:85
MSG_UPLOAD      == "please upload an audio file"     \* app.py:281
MSG_PROCESS     == "processing error: "              \* app.py:334
MSG_FAILED      == "processing failed: "             \* streamlit_app.py:358
MSG_UNSUPPORTED == "unsupported audio format"        \* main.py:209
MSG_UNPACK      == "too many values to unpack (expected 5)"  \* ValueError
MSG_NO_STRIP    == "object has no attribute 'strip'"         \* AttributeError

\* str(e): the text of an exception as a message
ExcText(m) == IF m = "" THEN <<>> ELSE <<m>>

\* the placeholder returned for an empty text, one token per character
NothingToTranslate == <<"mei", "you", "wen", "zi", "xu", "yao", "fan", "yi">>

(***************************************************************************)
(* Python values that the translation collaborator can hand back.          *)
(***************************************************************************)
PyStr(s) == [type |-> "str", val |-> s]
PyNone   == [type |-> "NoneType", val |-> <<>>]
PyInt42  == [type |-> "int", val |-> <<"4", "2">>]     \* val is str(value)

\* str(v) of a non-None value
py_str(v) == PyStr(v.val)

(***************************************************************************)
(* The collaborators.  The recognizer returns a sequence of raw segments   *)
(* drawn from SegPool or raises; the translator returns a value or raises. *)
(***************************************************************************)
SegHello == [start |-> 0,    end |-> 1500, text |-> <<" ", "H", "i">>]
SegWorld == [start |-> 1500, end |-> 4000, text |-> <<"y", "o", " ", "u">>]
SegShort == [start |-> 4000, end |-> 4050, text |-> <<"o", "k">>]
SegBlank == [start |-> 4050, end |-> 6000, text |-> <<" ">>]
SegPool  == {SegHello, SegWorld, SegShort, SegBlank}

RECURSIVE SeqsUpTo(_, _)
SeqsUpTo(S, n) ==
    IF n = 0 THEN {<<>>}
    ELSE LET shorter == SeqsUpTo(S, n - 1)
         IN  shorter \cup {Append(q, x) : q \in shorter, x \in S}

\* the recognizer reports its segments in chronological order
Chronological(q) ==
    \A i \in 1..(Len(q) - 1) : q[i].end <= q[i + 1].start

RecognizerResults ==
    {q \in SeqsUpTo(SegPool, MaxSegments) : Chronological(q)}
RecognizerErrors  == {"corrupt audio", "out of memory"}
LoadErrors        == {"download failed"}
Languages         == {"en"}

\* two translations of the scenario of the specification, one token per
\* character of the Chinese text
NiHao           == <<"ni", "hao">>
JinTianDeShiJie == <<"jin", "tian", "de", "shi", "jie">>

\* what GoogleTranslator.translate(text) would return when it answers in text
TranslationOf(text) ==
    IF text = <<"H", "i">> THEN NiHao
    ELSE IF text = <<"y", "o", " ", "u">> THEN JinTianDeShiJie
    ELSE <<"z", "h", ":">> \o text

TranslatorOutcomes(text) ==
    {[kind |-> "return", value |-> PyStr(TranslationOf(text)), msg |-> ""],
     [kind |-> "return", value |-> PyNone, msg |-> ""],
     [kind |-> "return", value |-> PyInt42, msg |-> ""],
     [kind |-> "raise", value |-> PyNone, msg |-> ""],
     [kind |-> "raise", value |-> PyNone, msg |-> "quota exceeded"]}

(***************************************************************************)
(* transcribe_with_timestamps: the loop that builds segments_data.         *)
(***************************************************************************)
StrippedSegment(seg) ==
    [start |-> seg.start, end |-> seg.end, text |-> strip(seg.text)]

\* streamlit_app.py:86  text.strip() and (end - start) > 0.1
KeepsSegment(seg) ==
    strip(seg.text) # <<>> /\ (seg.end - seg.start) > MinDurationMs

RECURSIVE FilterSegments(_)
FilterSegments(raw) ==
    IF raw = <<>> THEN <<>>
    ELSE IF KeepsSegment(Head(raw))
         THEN <<StrippedSegment(Head(raw))>> \o FilterSegments(Tail(raw))
         ELSE FilterSegments(Tail(raw))

extract_segments(fe, raw) ==
    IF fe = "streamlit"
    THEN FilterSegments(raw)
    ELSE [i \in 1..Len(raw) |-> StrippedSegment(raw[i])]

(***************************************************************************)
(* translate_to_traditional_chinese: one segment's text and the outcome of *)
(* the collaborator call; gives (translated_text, translate_error) and     *)
(* whether the collaborator was called.                                    *)
(***************************************************************************)
normalize_translation(fe, value) ==
    IF fe = "app" THEN value                  \* app.py:100-103 returns as is
    ELSE IF value.type = "NoneType" THEN PyStr(<<>>)
    ELSE IF value.type # "str" THEN py_str(value)
    ELSE value

translate_error_text(fe, msg) ==
    IF fe = "app" THEN <<MSG_TRANSLATE>> \o ExcText(msg)   \* app.py:107
    ELSE ExcText(msg)                                      \* main.py:118

translate_to_traditional_chinese(fe, text, outcome) ==
    IF text = <<>>
    THEN [translated_text |-> PyStr(NothingToTranslate), translate_error |-> <<>>,
          called |-> FALSE]
    ELSE IF outcome.kind = "return"
    THEN [translated_text |-> normalize_translation(fe, outcome.value),
          translate_error |-> <<>>, called |-> TRUE]
    ELSE [translated_text |-> PyStr(<<>>),
          translate_error |-> translate_error_text(fe, outcome.msg),
          called |-> TRUE]

(***************************************************************************)
(* generate_srt_content and the bilingual loop of process_audio_to_srt.    *)
(* A document is the sequence of its cue blocks; each block holds what the *)
(* three f-strings of one iteration append.                                *)
(***************************************************************************)
Min(a, b) == IF a <= b THEN a ELSE b

\* clean_text_for_subtitle(v) calls v.strip(): only a str has it
RenderRaises(values) == \E i \in 1..Len(values) : values[i].type # "str"

NoStripError(values) ==
    LET i == CHOOSE j \in 1..Len(values) : values[j].type # "str"
    IN  <<"'", values[i].type, "' ", MSG_NO_STRIP>>

\* variant: enumerate(...) without the start value 1
generate_srt_content_from_zero(segments_data, translated_segments) ==
    [i \in 1..Min(Len(segments_data), Len(translated_segments)) |->
        [index      |-> i - 1,
         start_time |-> format_timestamp(segments_data[i].start),
         end_time   |-> format_timestamp(segments_data[i].end),
         text       |-> clean_text_for_subtitle(translated_segments[i].val)]]

generate_srt_content(segments_data, translated_segments) ==
    [i \in 1..Min(Len(segments_data), Len(translated_segments)) |->
        [index      |-> i,
         start_time |-> format_timestamp(segments_data[i].start),
         end_time   |-> format_timestamp(segments_data[i].end),
         text       |-> clean_text_for_subtitle(translated_segments[i].val)]]

\* variant: the second line of a block is the source text again
generate_bilingual_srt_source_twice(segments_data, original_texts, translated_segments) ==
    [i \in 1..Min(Len(segments_data),
                  Min(Len(original_texts), Len(translated_segments))) |->
        [index      |-> i,
         start_time |-> format_timestamp(segments_data[i].start),
         end_time   |-> format_timestamp(segments_data[i].end),
         text       |-> clean_text_for_subtitle(original_texts[i])
                        \o <<"\n">>
                        \o clean_text_for_subtitle(original_texts[i])]]

generate_bilingual_srt(segments_data, original_texts, translated_segments) ==
    [i \in 1..Min(Len(segments_data),
                  Min(Len(original_texts), Len(translated_segments))) |->
        [index      |-> i,
         start_time |-> format_timestamp(segments_data[i].start),
         end_time   |-> format_timestamp(segments_data[i].end),
         text       |-> clean_text_for_subtitle(original_texts[i])
                        \o <<"\n">>
                        \o clean_text_for_subtitle(translated_segments[i].val)]]

\* variant: a block ends with one line break, no blank line
RECURSIVE SrtText_no_blank_line(_)
SrtText_no_blank_line(doc) ==
    IF doc = <<>> THEN <<>>
    ELSE LET cue == Head(doc)
         IN  Decimal(cue.index) \o <<"\n">> \o
             cue.start_time \o <<" ", "-", "-", ">", " ">> \o cue.end_time
                 \o <<"\n">> \o
             cue.text \o <<"\n">> \o
             SrtText_no_blank_line(Tail(doc))

\* the text of a document: the concatenation of its blocks
RECURSIVE SrtText(_)
SrtText(doc) ==
    IF doc = <<>> THEN <<>>
    ELSE LET cue == Head(doc)
         IN  Decimal(cue.index) \o <<"\n">> \o
             cue.start_time \o <<" ", "-", "-", ">", " ">> \o cue.end_time
                 \o <<"\n">> \o
             cue.text \o <<"\n", "\n">> \o
             SrtText(Tail(doc))

(***************************************************************************)
(* State.                                                                  *)
(***************************************************************************)
VARIABLES
    frontend,        \* which of the three programs is running
    env,             \* what the clients and the recognizer can send in this behaviour
    workers,         \* the handler threads that serve requests
    requests,        \* number of requests received so far
    whisper_model,   \* translator.whisper_model (app.py, main.py): a tier or "None"
    model_cache,     \* st.cache_resource entries of load_whisper_model: set of tiers
    constructed,     \* per tier, how many times whisper.load_model built a model
    run,             \* per worker, the frame of the request it is serving
    leftover_files,  \* temporary files that earlier requests left on the disk
    calc             \* the last call of a helper made on its own, and its result

vars == <<frontend, env, workers, requests, whisper_model, model_cache,
          constructed, run, leftover_files, calc>>

WorkerIds == 1..MaxWorkers

\* what process_audio_to_srt gives back: a result ("return") or an
\* exception ("raise"); app.py returns its error in the last tuple field
NoRet ==
    [kind |-> "none", error |-> <<>>, original_texts |-> <<>>,
     detected_language |-> "", translated_segments |-> <<>>,
     srt_content |-> <<>>, bilingual_srt |-> <<>>, has_bilingual |-> FALSE,
     segments_count |-> 0]

\* what the front-end handler hands to the caller
NoResponse ==
    [status |-> "none", http |-> 0, error |-> <<>>,
     has_srt |-> FALSE, srt |-> <<>>,
     has_bilingual |-> FALSE, bilingual |-> <<>>,
     original_text |-> <<>>, translated_text |-> <<>>,
     language |-> "", segments_count |-> -1]

IdleFrame ==
    [pc |-> "idle",
     model |-> "base",             \* tier selected by the caller
     include_original |-> FALSE,   \* bilingual flag of the caller
     model_size |-> "base",        \* argument of the current transcription attempt
     model_obj |-> "None",         \* tier of the model object load_whisper_model returned
     first_error |-> <<>>,         \* str(e) held by the frame that started the fallback
     attempts |-> <<>>,            \* log of the transcription attempts of this run
     raw |-> <<>>,                 \* result["segments"] of the recognizer
     segments_data |-> <<>>,
     detected_language |-> "",
     original_texts |-> <<>>,
     translated_segments |-> <<>>,
     calls |-> <<>>,               \* log of the calls of translator.translate
     ret |-> NoRet,
     response |-> NoResponse,
     files |-> {},                 \* temporary files of the request that exist
     consumed |-> FALSE,           \* the caller has fetched the result
     accepted |-> TRUE]            \* the upload passed the handler's first test

\* no helper has been called on its own
NoCall == [fn |-> "none", ms |-> 0, us |-> 0, text |-> <<>>, done |-> FALSE,
           out |-> <<>>, raised |-> FALSE]

\* offsets format_timestamp is called on: every millisecond up to
\* MaxOffsetMs, offsets around one minute, one hour and 100 hours, offsets
\* between two milliseconds, and negative offsets
LargeOffsetsMs == {59999, 60000, 3599999, 3600000, 3661234,
                   359999999, 360000000, 360000001}

NegativeOffsetsMs == {-500, -1500, -3600000, -3600500}

FormatOffsets ==
    {[ms |-> n, us |-> 0] : n \in 0..MaxOffsetMs}
        \cup {[ms |-> n, us |-> u] : n \in LargeOffsetsMs, u \in {0, 1, 500, 999}}
        \cup {[ms |-> n, us |-> 0] : n \in NegativeOffsetsMs}

\* texts clean_text_for_subtitle is called on: up to MaxWords words whose
\* lengths lie around the line limit and its half, separated by a space or
\* by a whitespace run, with or without whitespace around the text
WordLengths == {1, 18, 19, 20, 21, 39, 40, 41}

Letter(i) == <<"a", "b", "c", "d", "e", "f">>[((i - 1) % 6) + 1]

Word(i, n) == [k \in 1..n |-> Letter(i)]

Separators == {<<" ">>, <<" ", "\n", "\t", " ">>}

Paddings == {<<>>, <<"\n", " ">>}

WrapTexts ==
    {pad \o join(sep, [i \in 1..Len(ls) |-> Word(i, ls[i])]) \o pad :
        ls \in SeqsUpTo(WordLengths, MaxWords), sep \in Separators,
        pad \in Paddings}

HelperCalls ==
    {[NoCall EXCEPT !.fn = "format_timestamp", !.ms = o.ms, !.us = o.us] :
        o \in FormatOffsets}
    \cup {[NoCall EXCEPT !.fn = "clean_text_for_subtitle", !.text = t] :
        t \in WrapTexts}

Finished(f) == f.pc \in {"done", "failed"}

\* main.py runs every handler on one event loop: between the await of
\* audio.read() and the return nothing else runs
InLoop(f) == f.pc \in {"load", "construct", "load_return", "transcribe",
                       "translate", "render", "returned"}

LoopFree(r) == \A q \in workers \ {r} : ~InLoop(run[q])

\* the sequential specification takes every client input and recognizer
\* result; the concurrent one narrows them to keep the interleavings of
\* MaxWorkers threads enumerable
EnvResults(e) == IF e = "full" THEN RecognizerResults
                 ELSE SeqsUpTo({SegHello}, 1)

EnvTiers(e) == IF e = "full" THEN Tiers ELSE {"tiny", "base"}

Init ==
    /\ frontend \in Frontends
    /\ env = "full"
    /\ workers = {1}
    /\ requests = 0
    /\ whisper_model = "None"
    /\ model_cache = {}
    /\ constructed = [t \in Tiers |-> 0]
    /\ run = [r \in WorkerIds |-> IdleFrame]
    /\ leftover_files = {}
    /\ calc = NoCall

InitConcurrent ==
    /\ frontend \in Frontends
    /\ env = "narrow"
    /\ workers = WorkerIds
    /\ requests = 0
    /\ whisper_model = "None"
    /\ model_cache = {}
    /\ constructed = [t \in Tiers |-> 0]
    /\ run = [r \in WorkerIds |-> IdleFrame]
    /\ leftover_files = {}
    /\ calc = NoCall

\* a helper of a fresh translator object is about to be called on one input
InitHelpers ==
    /\ frontend \in Frontends
    /\ env = "full"
    /\ workers = {1}
    /\ requests = 0
    /\ whisper_model = "None"
    /\ model_cache = {}
    /\ constructed = [t \in Tiers |-> 0]
    /\ run = [r \in WorkerIds |-> IdleFrame]
    /\ leftover_files = {}
    /\ calc \in HelperCalls

(***************************************************************************)
(* process_audio_to_srt, the part after transcribe_with_timestamps.        *)
(***************************************************************************)
\* process_audio_to_srt ends with an error: raise Exception(msg) in main.py
\* and streamlit_app.py, return ("", "", "", "", "", msg) in app.py
FailRun(fe, f, msg) ==
    [f EXCEPT !.pc = "returned",
              !.ret = [NoRet EXCEPT !.kind = IF fe = "app" THEN "return"
                                              ELSE "raise",
                                    !.error = msg]]

\* variant: the test "if not segments_data" is missing, the loop over an
\* empty list runs zero times and the run goes on to render
AfterTranscribe_no_empty_test(fe, f, segs, lang, transcribe_error) ==
    IF transcribe_error # <<>>
    THEN FailRun(fe, f, IF fe = "app" THEN transcribe_error
                        ELSE <<MSG_TRANSCRIBE>> \o transcribe_error)
    ELSE [f EXCEPT !.pc = IF segs = <<>> THEN "render" ELSE "translate",
                   !.segments_data = segs,
                   !.detected_language = lang]

\* the two tests on what transcribe_with_timestamps returned
AfterTranscribe(fe, f, segs, lang, transcribe_error) ==
    IF transcribe_error # <<>>
    THEN FailRun(fe, f, IF fe = "app" THEN transcribe_error
                        ELSE <<MSG_TRANSCRIBE>> \o transcribe_error)
    ELSE IF segs = <<>>
    THEN FailRun(fe, f, <<MSG_NO_TEXT>>)
    ELSE [f EXCEPT !.pc = "translate",
                   !.segments_data = segs,
                   !.detected_language = lang]

\* variant: the test model_size != "tiny" is missing
FallbackTier_unguarded(fe, model_size) ==
    IF fe = "streamlit" THEN FastestTier ELSE "None"

\* the tier the except clause retries with, or "None" when it does not retry
FallbackTier(fe, model_size) ==
    IF fe = "streamlit" /\ model_size # FastestTier THEN FastestTier
    ELSE "None"

\* the except clause of transcribe_with_timestamps; msg is str(e)
OnRecognitionException(fe, f, msg) ==
    IF FallbackTier(fe, f.model_size) # "None"
    THEN [f EXCEPT !.pc = "load",
                   !.model_size = FallbackTier(fe, f.model_size),
                   !.first_error = ExcText(msg)]
    ELSE AfterTranscribe(fe, f, <<>>, "", <<MSG_TRANSCRIBE>> \o ExcText(msg))

\* the return of the try block of transcribe_with_timestamps
OnRecognitionResult(fe, f, raw, lang) ==
    LET segs == extract_segments(fe, raw) IN
    IF fe = "app" /\ segs = <<>>
    THEN AfterTranscribe(fe, f, <<>>, "", <<MSG_NO_TEXT>>)    \* app.py:84-85
    ELSE AfterTranscribe(fe, f, segs, lang, <<>>)

LogAttempt(f, used, failed) ==
    [f EXCEPT !.attempts = Append(@, [model_size |-> f.model_size,
                                      used |-> used, failed |-> failed])]

(***************************************************************************)
(* The handlers' results.                                                  *)
(***************************************************************************)
StrVals(values) == [i \in 1..Len(values) |-> values[i].val]

\* "\n".join(texts[:n]) + ("..." if len(texts) > n else "")
Preview(texts, n) ==
    join(<<"\n">>, SubSeq(texts, 1, Min(n, Len(texts))))
        \o (IF Len(texts) > n THEN <<".", ".", ".">> ELSE <<>>)

ErrorResponse(http, msg) ==
    [NoResponse EXCEPT !.status = "error", !.http = http, !.error = msg]

\* app.py process_audio_wrapper, after process_audio_to_srt came back
AppResponse(f) ==
    IF f.ret.kind = "raise"
    THEN ErrorResponse(0, <<MSG_PROCESS>> \o f.ret.error)
    ELSE IF ~f.include_original
    THEN \* five names for a six-tuple: ValueError, caught at app.py:331
         ErrorResponse(0, <<MSG_PROCESS, MSG_UNPACK>>)
    ELSE IF f.ret.error # <<>>
    THEN ErrorResponse(0, f.ret.error)
    ELSE [NoResponse EXCEPT
            !.status = "ok",
            !.has_srt = TRUE, !.srt = f.ret.srt_content,
            !.has_bilingual = TRUE, !.bilingual = f.ret.bilingual_srt,
            !.original_text = join(<<"\n">>, f.ret.original_texts),
            !.translated_text = join(<<"\n">>, StrVals(f.ret.translated_segments)),
            !.language = f.ret.detected_language]

AppFiles(f) ==
    IF AppResponse(f).status = "ok" THEN f.files \cup {"srt", "bilingual"}
    ELSE f.files

\* main.py process_audio, after process_audio_to_srt came back
MainResponse(f) ==
    IF f.ret.kind = "raise"
    THEN ErrorResponse(500, f.ret.error)
    ELSE [NoResponse EXCEPT
            !.status = "ok", !.http = 200,
            !.has_srt = TRUE, !.srt = f.ret.srt_content,
            !.has_bilingual = f.include_original /\ f.ret.has_bilingual,
            !.bilingual = IF f.include_original /\ f.ret.has_bilingual
                          THEN f.ret.bilingual_srt ELSE <<>>,
            !.original_text = Preview(f.ret.original_texts, PreviewMain),
            !.translated_text =
                Preview(StrVals(f.ret.translated_segments), PreviewMain),
            !.language = f.ret.detected_language,
            !.segments_count = f.ret.segments_count]

MainFiles(f) ==
    IF f.ret.kind = "raise" THEN f.files \ {"audio"}
    ELSE (f.files \cup {"srt"}
             \cup (IF f.include_original /\ f.ret.has_bilingual
                   THEN {"bilingual"} ELSE {})) \ {"audio"}

\* streamlit_app.py main, after process_audio_to_srt came back
StreamlitResponse(f) ==
    IF f.ret.kind = "raise"
    THEN ErrorResponse(0, <<MSG_FAILED>> \o f.ret.error)
    ELSE [NoResponse EXCEPT
            !.status = "ok",
            !.has_srt = TRUE, !.srt = f.ret.srt_content,
            !.has_bilingual = f.include_original /\ f.ret.has_bilingual,
            !.bilingual = IF f.include_original /\ f.ret.has_bilingual
                          THEN f.ret.bilingual_srt ELSE <<>>,
            !.original_text = Preview(f.ret.original_texts, PreviewStreamlit),
            !.translated_text =
                Preview(StrVals(f.ret.translated_segments), PreviewStreamlit),
            !.language = f.ret.detected_language,
            !.segments_count = f.ret.segments_count]

StreamlitFiles(f) == f.files \ {"audio"}

(***************************************************************************)
(* Actions.                                                                *)
(***************************************************************************)
\* A request arrives: process_audio_wrapper (app.py), process_audio
\* (main.py), the button branch of main (streamlit_app.py).  valid says the
\* audio is not None (app.py) or the file name has a supported extension
\* (main.py); the uploader of streamlit_app.py only passes supported files.
Begin(r) ==
    /\ run[r].pc = "idle" \/ Finished(run[r])
    /\ requests < MaxRequests
    /\ requests' = requests + 1
    /\ \E model \in EnvTiers(env), bilingual \in BOOLEAN, valid \in BOOLEAN :
          LET f == [IdleFrame EXCEPT !.model = model,
                                     !.model_size = model,
                                     !.include_original = bilingual]
          IN  run' = [run EXCEPT ![r] =
                CASE frontend = "app" /\ ~valid ->
                        [f EXCEPT !.pc = "failed", !.accepted = FALSE,
                                  !.response = ErrorResponse(0, <<MSG_UPLOAD>>)]
                  [] frontend = "app" /\ valid ->
                        [f EXCEPT !.pc = "load"]
                  [] frontend = "main" /\ ~valid ->
                        \* HTTPException(400) is caught by except Exception
                        [f EXCEPT !.pc = "failed", !.accepted = FALSE,
                                  !.response = ErrorResponse(500,
                                      <<"400: ", MSG_UNSUPPORTED>>)]
                  [] frontend = "main" /\ valid ->
                        [f EXCEPT !.pc = "uploaded", !.files = {"audio"}]
                  [] OTHER ->
                        [f EXCEPT !.pc = "load", !.files = {"audio"}]]
    /\ leftover_files' = leftover_files \cup run[r].files
    /\ UNCHANGED <<calc, frontend, env, workers, whisper_model, model_cache,
                   constructed>>

\* main.py: audio.read() completed, the event loop resumes the handler
EnterLoop(r) ==
    /\ run[r].pc = "uploaded"
    /\ LoopFree(r)
    /\ run' = [run EXCEPT ![r].pc = "load"]
    /\ UNCHANGED <<calc, leftover_files, frontend, env, workers, requests, whisper_model, model_cache,
                   constructed>>

\* load_whisper_model (app.py, main.py): if self.whisper_model is None
LoadCheck(r) ==
    /\ frontend \in {"app", "main"}
    /\ run[r].pc = "load"
    /\ run' = [run EXCEPT ![r].pc = IF whisper_model = "None" THEN "construct"
                                    ELSE "load_return"]
    /\ UNCHANGED <<calc, leftover_files, frontend, env, workers, requests, whisper_model, model_cache,
                   constructed>>

\* load_whisper_model: self.whisper_model = whisper.load_model(model_size)
LoadConstruct(r) ==
    /\ run[r].pc = "construct"
    /\ \/ /\ whisper_model' = run[r].model_size
          /\ constructed' = [constructed EXCEPT ![run[r].model_size] = @ + 1]
          /\ run' = [run EXCEPT ![r].pc = "load_return"]
       \/ /\ \E e \in LoadErrors :
                run' = [run EXCEPT ![r] = OnRecognitionException(frontend,
                                            LogAttempt(run[r], "None", TRUE), e)]
          /\ UNCHANGED <<whisper_model, constructed>>
    /\ UNCHANGED <<calc, leftover_files, frontend, env, workers, requests, model_cache>>

\* load_whisper_model: return self.whisper_model
LoadReturn(r) ==
    /\ run[r].pc = "load_return"
    /\ run' = [run EXCEPT ![r].pc = "transcribe",
                          ![r].model_obj = whisper_model]
    /\ UNCHANGED <<calc, leftover_files, frontend, env, workers, requests, whisper_model, model_cache,
                   constructed>>

\* load_whisper_model (streamlit_app.py): st.cache_resource looks the tier
\* up and, on a miss, builds the model while holding the cache's lock
LoadCached(r) ==
    /\ frontend = "streamlit"
    /\ run[r].pc = "load"
    /\ IF run[r].model_size \in model_cache
       THEN /\ run' = [run EXCEPT ![r].pc = "transcribe",
                                  ![r].model_obj = run[r].model_size]
            /\ UNCHANGED <<model_cache, constructed>>
       ELSE \/ /\ model_cache' = model_cache \cup {run[r].model_size}
               /\ constructed' =
                      [constructed EXCEPT ![run[r].model_size] = @ + 1]
               /\ run' = [run EXCEPT ![r].pc = "transcribe",
                                     ![r].model_obj = run[r].model_size]
            \/ /\ \E e \in LoadErrors :
                     run' = [run EXCEPT ![r] = OnRecognitionException(frontend,
                                            LogAttempt(run[r], "None", TRUE), e)]
               /\ UNCHANGED <<model_cache, constructed>>
    /\ UNCHANGED <<calc, leftover_files, frontend, env, workers, requests, whisper_model>>

\* transcribe_with_timestamps from model.transcribe on, and the tests of
\* process_audio_to_srt on what it returned
Transcribe(r) ==
    /\ run[r].pc = "transcribe"
    /\ \/ \E raw \in EnvResults(env), lang \in Languages :
            run' = [run EXCEPT ![r] = OnRecognitionResult(frontend,
                        [LogAttempt(run[r], run[r].model_obj, FALSE)
                            EXCEPT !.raw = raw],
                        raw, lang)]
       \/ \E e \in RecognizerErrors :
            run' = [run EXCEPT ![r] = OnRecognitionException(frontend,
                        LogAttempt(run[r], run[r].model_obj, TRUE), e)]
    /\ UNCHANGED <<calc, leftover_files, frontend, env, workers, requests, whisper_model, model_cache,
                   constructed>>

\* one iteration of the translation loop of process_audio_to_srt
TranslateStep(fe, f, outcome) ==
    LET k    == Len(f.original_texts) + 1
        text == f.segments_data[k].text
        t    == translate_to_traditional_chinese(fe, text, outcome)
        g    == [f EXCEPT !.original_texts = Append(@, text),
                          !.calls = IF t.called
                                    THEN Append(@, [index |-> k, text |-> text,
                                                    outcome |-> outcome])
                                    ELSE @]
    IN  IF t.translate_error # <<>>
        THEN FailRun(fe, g, <<MSG_TRANSLATE>> \o t.translate_error)
        ELSE [g EXCEPT !.translated_segments = Append(@, t.translated_text),
                       !.pc = IF k = Len(f.segments_data) THEN "render"
                              ELSE "translate"]

Translate(r) ==
    /\ run[r].pc = "translate"
    /\ \E outcome \in
            TranslatorOutcomes(run[r].segments_data[Len(run[r].original_texts) + 1].text) :
          run' = [run EXCEPT ![r] = TranslateStep(frontend, run[r], outcome)]
    /\ UNCHANGED <<calc, leftover_files, frontend, env, workers, requests, whisper_model, model_cache,
                   constructed>>

\* step 3 of process_audio_to_srt: the documents and the result
RenderStep(f) ==
    IF RenderRaises(f.translated_segments)
    THEN [f EXCEPT !.pc = "returned",
                   !.ret = [NoRet EXCEPT !.kind = "raise",
                              !.error = NoStripError(f.translated_segments)]]
    ELSE [f EXCEPT !.pc = "returned",
                   !.ret = [kind |-> "return", error |-> <<>>,
                            original_texts |-> f.original_texts,
                            detected_language |-> f.detected_language,
                            translated_segments |-> f.translated_segments,
                            srt_content |->
                                generate_srt_content(f.segments_data,
                                                     f.translated_segments),
                            bilingual_srt |->
                                IF f.include_original
                                THEN generate_bilingual_srt(f.segments_data,
                                        f.original_texts, f.translated_segments)
                                ELSE <<>>,
                            has_bilingual |-> f.include_original,
                            segments_count |-> Len(f.segments_data)]]

Render(r) ==
    /\ run[r].pc = "render"
    /\ run' = [run EXCEPT ![r] = RenderStep(run[r])]
    /\ UNCHANGED <<calc, leftover_files, frontend, env, workers, requests, whisper_model, model_cache,
                   constructed>>

\* the handler turns the outcome of process_audio_to_srt into its response
HandlerResponse(fe, f) ==
    IF fe = "app" THEN AppResponse(f)
    ELSE IF fe = "main" THEN MainResponse(f)
    ELSE StreamlitResponse(f)

HandlerFiles(fe, f) ==
    IF fe = "app" THEN AppFiles(f)
    ELSE IF fe = "main" THEN MainFiles(f)
    ELSE StreamlitFiles(f)

Finish(r) ==
    /\ run[r].pc = "returned"
    /\ run' = [run EXCEPT
                 ![r].response = HandlerResponse(frontend, run[r]),
                 ![r].files = HandlerFiles(frontend, run[r]),
                 ![r].pc = IF HandlerResponse(frontend, run[r]).status = "ok"
                           THEN "done" ELSE "failed"]
    /\ UNCHANGED <<calc, leftover_files, frontend, env, workers, requests, whisper_model, model_cache,
                   constructed>>

\* the caller fetches the documents of a finished request: download_file of
\* main.py serves the file and leaves it in TEMP_DIR, Gradio serves the paths
\* that process_audio_wrapper returned, the download buttons of
\* streamlit_app.py hand over the text; none of them removes a file
Consume(r) ==
    /\ run[r].pc = "done"
    /\ ~run[r].consumed
    /\ run' = [run EXCEPT ![r].consumed = TRUE]
    /\ UNCHANGED <<calc, leftover_files, frontend, env, workers, requests,
                   whisper_model, model_cache, constructed>>

Next ==
    \E r \in workers :
        \/ Begin(r)
        \/ EnterLoop(r)
        \/ LoadCheck(r)
        \/ LoadConstruct(r)
        \/ LoadReturn(r)
        \/ LoadCached(r)
        \/ Transcribe(r)
        \/ Translate(r)
        \/ Render(r)
        \/ Finish(r)
        \/ Consume(r)

Spec == Init /\ [][Next]_vars

\* format_timestamp(seconds) returns; nothing in it raises for a number
CallFormatTimestamp ==
    /\ calc.fn = "format_timestamp" /\ ~calc.done
    /\ calc' = [calc EXCEPT !.done = TRUE,
                            !.out = format_timestamp_at(calc.ms, calc.us)]
    /\ UNCHANGED <<frontend, env, workers, requests, whisper_model, model_cache,
                   constructed, run, leftover_files>>

\* clean_text_for_subtitle(text) returns
CallCleanText ==
    /\ calc.fn = "clean_text_for_subtitle" /\ ~calc.done
    /\ calc' = [calc EXCEPT !.done = TRUE,
                            !.out = clean_text_for_subtitle(calc.text)]
    /\ UNCHANGED <<frontend, env, workers, requests, whisper_model, model_cache,
                   constructed, run, leftover_files>>

NextHelpers == CallFormatTimestamp \/ CallCleanText

SpecHelpers == InitHelpers /\ [][NextHelpers]_vars

SpecConcurrent == InitConcurrent /\ [][Next]_vars

(***************************************************************************)
(* Properties.                                                             *)
(***************************************************************************)
Last(q) == q[Len(q)]

\* the translation loop of the run went over all its segments
LoopCompleted(f) ==
    Len(f.segments_data) >= 1 /\ Len(f.original_texts) = Len(f.segments_data)

\* every call of the translation collaborator came back with a value
AllReturned(f) ==
    \A j \in 1..Len(f.calls) : f.calls[j].outcome.kind = "return"

\* every call of the translation collaborator came back with a text
AllReturnedText(f) ==
    \A j \in 1..Len(f.calls) :
        /\ f.calls[j].outcome.kind = "return"
        /\ f.calls[j].outcome.value.type = "str"

SomeRaised(f) ==
    \E j \in 1..Len(f.calls) : f.calls[j].outcome.kind = "raise"

\* C1: a run in which the translation collaborator failed on some segment,
\* whatever the message of the failure, ends FAILED with a non-empty error,
\* and the caller gets no document, no transcript and no translation.
C1_FailFastOnAnyFailure ==
    \A r \in WorkerIds :
        (Finished(run[r]) /\ SomeRaised(run[r])) =>
            /\ run[r].pc = "failed"
            /\ run[r].response.status = "error"
            /\ run[r].response.error # <<>>
            /\ ~run[r].response.has_srt
            /\ ~run[r].response.has_bilingual
            /\ run[r].response.original_text = <<>>
            /\ run[r].response.translated_text = <<>>

\* C2: in a run over N >= 1 segments in which every translation call
\* returned, the translated sequence has N entries, entry i comes from the
\* call for segment i, the renderer gets sequences of equal length, and the
\* document has N cues numbered 1..N, cue i with the times and the
\* translation of segment i.
C2_OrderPreserved ==
    \A r \in WorkerIds :
        LET f == run[r]
            N == Len(f.segments_data)
        IN  /\ f.pc = "render" =>
                  /\ N >= 1
                  /\ Len(f.translated_segments) = N
                  /\ Len(f.original_texts) = N
            /\ (LoopCompleted(f) /\ AllReturned(f)) =>
                  /\ Len(f.translated_segments) = N
                  /\ \A i \in 1..N :
                        /\ f.original_texts[i] = f.segments_data[i].text
                        /\ f.segments_data[i].text # <<>> =>
                              Cardinality({j \in 1..Len(f.calls) :
                                              f.calls[j].index = i}) = 1
                  /\ \A j \in 1..Len(f.calls) :
                        LET c == f.calls[j] IN
                        /\ c.text = f.segments_data[c.index].text
                        /\ (j > 1 => f.calls[j - 1].index < c.index)
                        /\ c.outcome.value.type = "str" =>
                              f.translated_segments[c.index] = c.outcome.value
                  /\ (f.pc \in {"returned", "done", "failed"}
                        /\ AllReturnedText(f)) =>
                        f.ret.kind = "return" /\ f.ret.error = <<>>
                  /\ (f.ret.kind = "return" /\ f.ret.error = <<>>) =>
                        /\ Len(f.ret.srt_content) = N
                        /\ f.ret.segments_count = N
                        /\ \A i \in 1..N :
                              LET cue == f.ret.srt_content[i] IN
                              /\ cue.index = i
                              /\ cue.start_time =
                                    format_timestamp(f.segments_data[i].start)
                              /\ cue.end_time =
                                    format_timestamp(f.segments_data[i].end)
                              /\ cue.text = clean_text_for_subtitle(
                                                f.translated_segments[i].val)

C2_Witness ==
    \E r \in WorkerIds :
        LET f == run[r] IN
        /\ f.ret.kind = "return" /\ f.ret.error = <<>>
        /\ Len(f.segments_data) = 2
        /\ f.segments_data[1] # f.segments_data[2]
        /\ Len(f.calls) = 2
        /\ AllReturnedText(f)
        /\ Len(f.ret.srt_content) = 2

\* C3: a run with at least one segment in which every translation call
\* returned a text ends DONE for either value of the bilingual flag: the
\* handler hands over the mono-lingual document with no error, and the
\* bilingual document exactly when it was requested.
C3_DoneWithDocuments ==
    \A r \in WorkerIds :
        LET f == run[r] IN
        (Finished(f) /\ LoopCompleted(f) /\ AllReturnedText(f)) =>
            /\ f.pc = "done"
            /\ f.response.status = "ok"
            /\ f.response.error = <<>>
            /\ f.response.has_srt
            /\ Len(f.response.srt) = Len(f.segments_data)
            /\ f.response.has_bilingual <=> f.include_original

\* C4: the first transcription attempt of a run that selected tier t is
\* performed by the model of tier t.
C4_ModelOfSelectedTier ==
    \A r \in WorkerIds :
        LET f == run[r] IN
        (Len(f.attempts) >= 1 /\ f.attempts[1].used # "None") =>
            f.attempts[1].used = f.model

\* C5: every entry of the translated sequence is a string.
C5_TranslatedIsString ==
    \A r \in WorkerIds :
        \A i \in 1..Len(run[r].translated_segments) :
            run[r].translated_segments[i].type = "str"

\* C6: a run whose last recognition attempt returned and left zero segments
\* fails with the "cannot extract text" error; the translation collaborator
\* is not called and no document is rendered or handed over.
ZeroSegments(f) ==
    /\ Len(f.attempts) >= 1
    /\ ~Last(f.attempts).failed
    /\ f.segments_data = <<>>

C6_NoSpeechDetected ==
    \A r \in WorkerIds :
        LET f == run[r] IN
        ZeroSegments(f) =>
            /\ f.pc \in {"returned", "failed"}
            /\ f.ret.kind \in {"return", "raise"}
            /\ f.ret.error = <<MSG_NO_TEXT>>
            /\ f.calls = <<>>
            /\ f.translated_segments = <<>>
            /\ f.ret.srt_content = <<>> /\ f.ret.bilingual_srt = <<>>
            /\ ~f.response.has_srt /\ ~f.response.has_bilingual
            /\ f.pc = "failed" =>
                  f.response.status = "error" /\ f.response.error # <<>>

\* the recognizer returned segments and the filter removed all of them
C6_Witness ==
    \E r \in WorkerIds :
        LET f == run[r] IN
        /\ ZeroSegments(f)
        /\ Len(f.raw) >= 1
        /\ f.pc = "failed"

\* C7: a recognized segment shorter than the minimal duration is not in the
\* segments of the run, is not translated, gives no cue, and the segment
\* count handed to the caller is the number of cues.
IsShort(seg) == seg.end - seg.start < MinDurationMs

C7_ShortSegmentsExcluded ==
    \A r \in WorkerIds :
        LET f == run[r] IN
        /\ \A i \in 1..Len(f.raw) :
              IsShort(f.raw[i]) =>
                 /\ \A j \in 1..Len(f.segments_data) :
                       ~(/\ f.segments_data[j].start = f.raw[i].start
                         /\ f.segments_data[j].end = f.raw[i].end)
                 /\ \A j \in 1..Len(f.calls) :
                       f.calls[j].text # strip(f.raw[i].text)
                 /\ \A j \in 1..Len(f.response.srt) :
                       ~(/\ f.response.srt[j].start_time =
                                format_timestamp(f.raw[i].start)
                         /\ f.response.srt[j].end_time =
                                format_timestamp(f.raw[i].end))
        /\ (f.response.status = "ok" /\ f.response.segments_count >= 0) =>
              f.response.segments_count = Len(f.response.srt)

\* C8: the error of a run that the translation of segment k aborted holds
\* the source text of segment k and the message of the collaborator.
TextChunk(text) ==
    IF text = <<"H", "i">> THEN "Hi"
    ELSE IF text = <<"y", "o", " ", "u">> THEN "yo u"
    ELSE IF text = <<"o", "k">> THEN "ok"
    ELSE ""

Mentions(msg, chunk) == \E i \in 1..Len(msg) : msg[i] = chunk

AbortedByTranslation(f) ==
    /\ f.ret.kind \in {"return", "raise"}
    /\ f.ret.error # <<>>
    /\ f.calls # <<>>
    /\ Last(f.calls).outcome.kind = "raise"
    /\ Len(f.translated_segments) < Len(f.original_texts)

C8_ErrorNamesSegment ==
    \A r \in WorkerIds :
        LET f == run[r] IN
        AbortedByTranslation(f) =>
            /\ Mentions(f.ret.error, TextChunk(Last(f.calls).text))
            /\ Last(f.calls).outcome.msg # "" =>
                  Mentions(f.ret.error, Last(f.calls).outcome.msg)

\* C9: a run makes at most two transcription attempts: the first with the
\* selected tier, a second only with the fastest tier, only after the first
\* failed and only if the selected tier is not the fastest; no attempt
\* starts after the second, and a run that selected the fastest tier has
\* made exactly one attempt when transcription is over.
Transcribing(f) == f.pc \in {"load", "construct", "load_return", "transcribe"}

TranscriptionOver(f) ==
    \/ f.pc \in {"translate", "render", "returned"}
    \/ Finished(f) /\ f.ret.kind # "none"

C9_AtMostOneFallback ==
    \A r \in WorkerIds :
        LET f == run[r]
            a == f.attempts
        IN  /\ Len(a) <= 2
            /\ Transcribing(f) => Len(a) <= 1
            /\ Len(a) >= 1 => a[1].model_size = f.model
            /\ Len(a) = 2 =>
                  /\ a[2].model_size = FastestTier
                  /\ a[1].failed
                  /\ f.model # FastestTier
            /\ (Transcribing(f) /\ Len(a) = 1) =>
                  /\ a[1].failed
                  /\ f.model # FastestTier
                  /\ f.model_size = FastestTier
            /\ TranscriptionOver(f) =>
                  /\ Len(a) >= 1
                  /\ f.model = FastestTier => Len(a) = 1
                  /\ ~a[1].failed => Len(a) = 1
            /\ frontend = "streamlit" =>
                  \A i \in 1..Len(a) : a[i].used \in {"None", a[i].model_size}

\* both attempts were made and both failed
C9_Witness ==
    \E r \in WorkerIds :
        LET f == run[r] IN
        /\ Len(f.attempts) = 2
        /\ f.attempts[1].used # "None" /\ f.attempts[2].used # "None"
        /\ f.attempts[2].failed
        /\ f.pc = "failed"

\* C10: the model of a tier is built at most once.
C10_ConstructedOnce ==
    \A t \in Tiers : constructed[t] <= 1

\* C11: once a request has failed, or has succeeded and its result has been
\* fetched, none of the temporary files created for it (the audio copy, the
\* rendered documents) exists any more, and no earlier request has left a
\* file behind.
C11_TempFilesRemoved ==
    /\ leftover_files = {}
    /\ \A r \in WorkerIds :
          (run[r].pc = "failed" \/ (run[r].pc = "done" /\ run[r].consumed)) =>
              run[r].files = {}

\* C12: the mono-lingual document of N segments and N translations is the
\* concatenation, for i = 1..N in order, of the blocks
\* i "\n" format(start_i) " --> " format(end_i) "\n" wrap(translation_i) "\n\n"
\* and nothing else; for the segments (0.0, 1.5), (1.5, 4.0) with the two
\* translations of the scenario it is the scenario's document.
C12_Block(i, seg, translation) ==
    Decimal(i) \o <<"\n">> \o
    format_timestamp(seg.start) \o <<" ", "-", "-", ">", " ">> \o
    format_timestamp(seg.end) \o <<"\n">> \o
    clean_text_for_subtitle(translation) \o <<"\n", "\n">>

RECURSIVE C12_Blocks(_, _, _)
C12_Blocks(segs, translations, i) ==
    IF i > Len(segs) THEN <<>>
    ELSE C12_Block(i, segs[i], translations[i])
             \o C12_Blocks(segs, translations, i + 1)

\* "1\n00:00:00,000 --> 00:00:01,500\n<ni hao>\n\n2\n00:00:01,500 -->
\* 00:00:04,000\n<jin tian de shi jie>\n\n"
ScenarioDocument ==
    <<"1", "\n", "0", "0", ":", "0", "0", ":", "0", "0", ",", "0", "0",
      "0", " ", "-", "-", ">", " ", "0", "0", ":", "0", "0", ":", "0", "1",
      ",", "5", "0", "0", "\n", "ni", "hao", "\n", "\n", "2", "\n", "0",
      "0", ":", "0", "0", ":", "0", "1", ",", "5", "0", "0", " ", "-", "-",
      ">", " ", "0", "0", ":", "0", "0", ":", "0", "4", ",", "0", "0", "0",
      "\n", "jin", "tian", "de", "shi", "jie", "\n", "\n">>

IsScenario(f) ==
    /\ Len(f.segments_data) = 2
    /\ f.segments_data[1].start = 0    /\ f.segments_data[1].end = 1500
    /\ f.segments_data[2].start = 1500 /\ f.segments_data[2].end = 4000
    /\ StrVals(f.translated_segments) = <<NiHao, JinTianDeShiJie>>

C12_MonoDocumentExact ==
    \A r \in WorkerIds :
        LET f == run[r] IN
        (f.ret.kind = "return" /\ f.ret.error = <<>>) =>
            /\ Len(f.translated_segments) = Len(f.segments_data)
            /\ SrtText(f.ret.srt_content) =
                  C12_Blocks(f.segments_data, StrVals(f.translated_segments), 1)
            /\ IsScenario(f) => SrtText(f.ret.srt_content) = ScenarioDocument

\* the scenario's run has rendered its document
C12_Witness ==
    \E r \in WorkerIds :
        /\ run[r].ret.kind = "return" /\ run[r].ret.error = <<>>
        /\ IsScenario(run[r])
        /\ SrtText(run[r].ret.srt_content) = ScenarioDocument

\* C13: when the bilingual document is requested it has as many cues as the
\* mono-lingual one, cue i of both has the same index and time range, and
\* the text of bilingual cue i is the wrapped source text, a line break and
\* the wrapped translation, so mono-lingual cue i's text is a substring of it.
IsSubstring(needle, hay) ==
    \E k \in 0..(Len(hay) - Len(needle)) :
        SubSeq(hay, k + 1, k + Len(needle)) = needle

C13_BilingualSuperset ==
    \A r \in WorkerIds :
        LET f    == run[r]
            mono == f.ret.srt_content
            bi   == f.ret.bilingual_srt
        IN  (f.ret.kind = "return" /\ f.ret.error = <<>> /\ f.include_original) =>
                /\ f.ret.has_bilingual
                /\ Len(bi) = Len(mono)
                /\ \A i \in 1..Len(mono) :
                      /\ bi[i].index = mono[i].index
                      /\ bi[i].start_time = mono[i].start_time
                      /\ bi[i].end_time = mono[i].end_time
                      /\ bi[i].text =
                            clean_text_for_subtitle(f.segments_data[i].text)
                                \o <<"\n">> \o
                            clean_text_for_subtitle(f.translated_segments[i].val)
                      /\ IsSubstring(mono[i].text, bi[i].text)

\* a bilingual run over two segments has rendered both documents
C13_Witness ==
    \E r \in WorkerIds :
        LET f == run[r] IN
        /\ f.ret.kind = "return" /\ f.ret.error = <<>> /\ f.include_original
        /\ Len(f.ret.bilingual_srt) = 2
        /\ f.ret.bilingual_srt[2].text # f.ret.srt_content[2].text

\* C14: for every offset s >= 0, format_timestamp(s) is HH:MM:SS,mmm with
\* HH = floor(s / 3600) padded to at least two digits, MM = floor((s mod
\* 3600) / 60), SS = floor(s mod 60) and mmm = floor(1000 * fraction of s),
\* truncated and never rounded.
Truncated(ms) ==
    ZeroPad(Decimal(ms \div 3600000), 2) \o <<":">> \o
    ZeroPad(Decimal((ms % 3600000) \div 60000), 2) \o <<":">> \o
    ZeroPad(Decimal((ms % 60000) \div 1000), 2) \o <<",">> \o
    ZeroPad(Decimal(ms % 1000), 3)

Formatted == calc.fn = "format_timestamp" /\ calc.done

C14_TimestampTruncated ==
    (Formatted /\ calc.ms >= 0) => calc.out = Truncated(calc.ms)

\* C15: format_timestamp of a negative offset raises and returns no string.
C15_NegativeOffsetRaises ==
    (Formatted /\ calc.ms < 0) => (calc.raised /\ calc.out = <<>>)

\* C16: every line of the output of clean_text_for_subtitle has at most 40
\* characters, unless the line is one whitespace-free word longer than 40.
SplitLines(s, cur) == split_at(s, "\n", cur)

IsOneWord(line) ==
    line # <<>> /\ \A k \in 1..Len(line) : ~IsSpace(line[k])

Cleaned == calc.fn = "clean_text_for_subtitle" /\ calc.done

C16_LineLength ==
    Cleaned =>
        LET lines == SplitLines(calc.out, <<>>) IN
        \A i \in 1..Len(lines) :
            \/ Len(lines[i]) <= MaxLineLen
            \/ IsOneWord(lines[i]) /\ Len(lines[i]) > MaxLineLen

\* an output with a line of two words that fills the limit and a line that
\* is one longer word
C16_Witness ==
    /\ Cleaned
    /\ LET lines == SplitLines(calc.out, <<>>) IN
       /\ \E i \in 1..Len(lines) :
             Len(lines[i]) = MaxLineLen /\ ~IsOneWord(lines[i])
       /\ \E j \in 1..Len(lines) :
             Len(lines[j]) > MaxLineLen /\ IsOneWord(lines[j])

\* C17: wrapping the whitespace-collapsed output of the wrapper gives the
\* same output: wrap(collapse(wrap(x))) = wrap(x), where collapse turns every
\* whitespace run, inserted line breaks included, into one space and trims.
collapse(s) == collapse_ws(strip(s))

C17_WrapStable ==
    Cleaned => clean_text_for_subtitle(collapse(calc.out)) = calc.out

\* a text with whitespace runs that was wrapped over three lines
C17_Witness ==
    /\ Cleaned
    /\ Len(SplitLines(calc.out, <<>>)) = 3
    /\ collapse(calc.text) # calc.text
    /\ collapse(calc.out) # calc.out

\* C18: when the attempt with the selected tier failed and the fallback
\* attempt with the fastest tier failed too, the error of the run carries
\* the message of the first failure, not the message of the fallback's.
BothAttemptsFailed(f) ==
    /\ Len(f.attempts) = 2
    /\ f.attempts[1].failed /\ f.attempts[2].failed
    /\ f.ret.kind # "none"

C18_OriginalErrorReported ==
    \A r \in WorkerIds :
        BothAttemptsFailed(run[r]) =>
            run[r].ret.error =
                <<MSG_TRANSCRIBE, MSG_TRANSCRIBE>> \o run[r].first_error

\* C19: for a segment with an empty text the translation step gives the
\* "nothing to translate" placeholder without an error and without calling
\* the collaborator, and the pipeline treats it as a sentinel: it is not the
\* text of a cue of either document nor part of the translated text.
ShowsPlaceholder(doc) ==
    \E i \in 1..Len(doc) : IsSubstring(NothingToTranslate, doc[i].text)

C19_PlaceholderSpecialCased ==
    \A r \in WorkerIds :
        LET f == run[r] IN
        /\ \A i \in 1..Len(f.translated_segments) :
              f.segments_data[i].text = <<>> =>
                  /\ f.translated_segments[i] = PyStr(NothingToTranslate)
                  /\ \A j \in 1..Len(f.calls) : f.calls[j].index # i
        /\ ~ShowsPlaceholder(f.ret.srt_content)
        /\ ~ShowsPlaceholder(f.ret.bilingual_srt)
        /\ ~ShowsPlaceholder(f.response.srt)
        /\ ~ShowsPlaceholder(f.response.bilingual)
        /\ ~IsSubstring(NothingToTranslate, f.response.translated_text)

\* C20: in a run the translation collaborator is called in segment order,
\* at most once per segment (a failed call is not retried), and it is not
\* called for any segment after the first one whose translation failed.
C20_CallsStopAtFirstFailure ==
    \A r \in WorkerIds :
        LET c == run[r].calls IN
        /\ \A j \in 1..(Len(c) - 1) : c[j].index < c[j + 1].index
        /\ \A j \in 1..(Len(c) - 1) : c[j].outcome.kind # "raise"

\* C21: for a text whose whitespace-normalized form has more than 40
\* characters the output is the greedy packing: its lines joined by single
\* spaces are the normalized text, no line is empty, and two consecutive
\* words are separated by a line break exactly when the line so far, a space
\* and the next word have more than 40 characters; a normalized text of at
\* most 40 characters is returned unchanged as one line.
FirstWord(line) == split_space(line, <<>>)[1]

C21_GreedyPacking ==
    Cleaned =>
        LET normalized == collapse(calc.text)
            lines      == SplitLines(calc.out, <<>>)
        IN  IF Len(normalized) <= MaxLineLen
            THEN calc.out = normalized
            ELSE /\ join(<<" ">>, lines) = normalized
                 /\ \A i \in 1..Len(lines) :
                       /\ lines[i] # <<>>
                       \* no break inside the line: every word of it fitted
                       /\ ~IsOneWord(lines[i]) => Len(lines[i]) <= MaxLineLen
                 \* a break after the line: the next word did not fit
                 /\ \A i \in 1..(Len(lines) - 1) :
                       Len(lines[i]) + 1 + Len(FirstWord(lines[i + 1]))
                           > MaxLineLen

\* a text with whitespace runs whose first two words fill a line to the
\* limit and whose third word starts the next line
C21_Witness ==
    /\ Cleaned
    /\ collapse(calc.text) # calc.text
    /\ Len(collapse(calc.text)) > MaxLineLen
    /\ LET lines == SplitLines(calc.out, <<>>) IN
       /\ Len(lines) = 2
       /\ Len(lines[1]) = MaxLineLen /\ ~IsOneWord(lines[1])

\* C22: in the REST front-end a request whose file name has no supported
\* audio extension is answered with status 400 and the message "unsupported
\* audio format"; no file is written for it and neither the recognizer nor
\* the translator is called.
C22_UnsupportedAnswered400 ==
    \A r \in WorkerIds :
        LET f == run[r] IN
        (frontend = "main" /\ Finished(f) /\ ~f.accepted) =>
            /\ f.response.status = "error"
            /\ f.response.http = 400
            /\ f.response.error = <<MSG_UNSUPPORTED>>
            /\ f.files = {}
            /\ f.attempts = <<>>
            /\ f.calls = <<>>

====
